---- MODULE Spec2Model ----
(***************************************************************************)
(* A model of cupy/linalg/einsum.py: the subscript parser of einsum and    *)
(* the pipeline calc_single_view -> move_broadcast_axes_to_front ->        *)
(* calc_combined_view -> calc_single_view -> calc_summed_view ->           *)
(* calc_transposed_view.                                                   *)
(*                                                                         *)
(* A subscript string is a sequence of one-character strings; positions    *)
(* are 0-based as in Python.  A tensor is a record [shape, data] whose     *)
(* data is the sequence of its elements in row-major (C) order.            *)
(***************************************************************************)
EXTENDS Integers, Sequences, FiniteSets, TLC

\* ------------------------------------------------------------------------
\* Bounds of the model
\* ------------------------------------------------------------------------
MaxEllipsis == 2
MaxBatchRank == 2
MaxSeed == 1
MaxSingleLen == 3
MaxPairLen == 2
MaxViewLen == 3
MaxDiagLen == 4

\* ------------------------------------------------------------------------
\* Python strings and lists
\* ------------------------------------------------------------------------
Letters == {"A", "i", "j", "k"}

\* code points, the order used by sorted()
Ord(c) ==
  CASE c = "@" -> 64
    [] c = "A" -> 65
    [] c = "i" -> 105
    [] c = "j" -> 106
    [] c = "k" -> 107
    [] OTHER -> 0

Min2(a, b) == IF a < b THEN a ELSE b
Max2(a, b) == IF a > b THEN a ELSE b

Range(s) == {s[n] : n \in 1..Len(s)}

\* collections.Counter(s)[c]
Count(s, c) == Cardinality({n \in 1..Len(s) : s[n] = c})

\* s.find(c): the 0-based position of the first c, or -1
Find(s, c) ==
  IF c \in Range(s)
    THEN (CHOOSE n \in 1..Len(s) : s[n] = c /\ \A m \in 1..(n - 1) : s[m] # c) - 1
    ELSE -1

\* s.rfind(c)
RFind(s, c) ==
  IF c \in Range(s)
    THEN (CHOOSE n \in 1..Len(s) : s[n] = c /\ \A m \in (n + 1)..Len(s) : s[m] # c) - 1
    ELSE -1

\* s.replace(c, '')
Remove(s, c) == SelectSeq(s, LAMBDA x : x # c)

\* a slice bound as Python clamps it
ClampIndex(n, len) ==
  IF n < 0 THEN Max2(n + len, 0) ELSE Min2(n, len)

\* s[:n]
PyPrefix(s, n) == SubSeq(s, 1, ClampIndex(n, Len(s)))

\* s[n:]
PySuffix(s, n) == SubSeq(s, ClampIndex(n, Len(s)) + 1, Len(s))

\* s[:n] + s[n + 1:]
DropAt(s, n) == PyPrefix(s, n) \o PySuffix(s, n + 1)

\* list.insert(pos, x) for pos >= 0: a position past the end appends
ListInsert(s, pos, x) ==
  LET p == Min2(pos, Len(s))
  IN SubSeq(s, 1, p) \o <<x>> \o SubSeq(s, p + 1, Len(s))

RECURSIVE Join(_)
\* ''.join(list of strings)
Join(ss) == IF ss = <<>> THEN <<>> ELSE Head(ss) \o Join(Tail(ss))

RECURSIVE SortedChars(_)
\* sorted(set of characters)
SortedChars(S) ==
  IF S = {} THEN <<>>
  ELSE LET c == CHOOSE x \in S : \A y \in S : Ord(x) <= Ord(y)
       IN <<c>> \o SortedChars(S \ {c})

\* ------------------------------------------------------------------------
\* The tensor engine (ndarray): shapes, row-major data, axis operations
\* ------------------------------------------------------------------------
RECURSIVE get_pi(_)
get_pi(num_lists) ==
  IF num_lists = <<>> THEN 1 ELSE Head(num_lists) * get_pi(Tail(num_lists))

Ndim(t) == Len(t.shape)

\* the 0-based multi-index of the n-th element (n 0-based) of a shape
Unlin(shape, n) ==
  [a \in 1..Len(shape) |->
     (n \div get_pi(SubSeq(shape, a + 1, Len(shape)))) % shape[a]]

RECURSIVE Lin(_, _)
\* the row-major offset of a multi-index
Lin(shape, idx) ==
  IF shape = <<>> THEN 0
  ELSE idx[1] * get_pi(Tail(shape)) + Lin(Tail(shape), Tail(idx))

At(t, idx) == t.data[Lin(t.shape, idx) + 1]

MkTensor(shape, F(_)) ==
  [shape |-> shape,
   data  |-> [n \in 1..get_pi(shape) |-> F(Unlin(shape, n - 1))]]

NoTensor == [shape |-> <<>>, data |-> <<>>]

\* ndarray.transpose(order): axis a of the result is axis order[a] of t
Transpose(t, order) ==
  LET newshape == [a \in 1..Ndim(t) |-> t.shape[order[a] + 1]]
      PosOf(x) == CHOOSE a \in 1..Ndim(t) : order[a] = x
  IN MkTensor(newshape,
       LAMBDA idx : At(t, [b \in 1..Ndim(t) |-> idx[PosOf(b - 1)]]))

\* ndarray.diagonal(0, axis1, axis2): both axes are removed and the
\* diagonal becomes the last axis
Diagonal(t, axis1, axis2) ==
  LET keep == SelectSeq([a \in 1..Ndim(t) |-> a - 1],
                        LAMBDA x : x # axis1 /\ x # axis2)
      d == Min2(t.shape[axis1 + 1], t.shape[axis2 + 1])
      newshape == [a \in 1..Len(keep) |-> t.shape[keep[a] + 1]] \o <<d>>
      Old(idx) == [b \in 1..Ndim(t) |->
                     IF b - 1 = axis1 \/ b - 1 = axis2
                       THEN idx[Len(keep) + 1]
                       ELSE idx[CHOOSE a \in 1..Len(keep) : keep[a] = b - 1]]
  IN MkTensor(newshape, LAMBDA idx : At(t, Old(idx)))

\* cupy.rollaxis(t, axis, start)
Rollaxis(t, axis, start) ==
  LET n == Ndim(t)
      ax == IF axis < 0 THEN axis + n ELSE axis
      st0 == IF start < 0 THEN start + n ELSE start
      st == IF ax < st0 THEN st0 - 1 ELSE st0
      rest == SelectSeq([a \in 1..n |-> a - 1], LAMBDA x : x # ax)
  IN IF ax = st THEN t ELSE Transpose(t, ListInsert(rest, st, ax))

RECURSIVE SumSeq(_)
\* the sum of a sequence of numbers
SumSeq(s) == IF s = <<>> THEN 0 ELSE Head(s) + SumSeq(Tail(s))

\* ndarray.sum(axis = axes): axes is a set of normalized axes
SumAxes(t, axes) ==
  LET keep == SelectSeq([a \in 1..Ndim(t) |-> a - 1], LAMBDA x : x \notin axes)
      newshape == [a \in 1..Len(keep) |-> t.shape[keep[a] + 1]]
      Fits(idx, old) == \A a \in 1..Len(keep) : old[keep[a] + 1] = idx[a]
  IN MkTensor(newshape,
       LAMBDA idx :
         SumSeq([n \in 1..get_pi(t.shape) |->
                   IF Fits(idx, Unlin(t.shape, n - 1)) THEN t.data[n] ELSE 0]))

\* ndarray.reshape(newshape), for a shape of the same size
Reshape(t, newshape) == [shape |-> newshape, data |-> t.data]

\* cupy.matmul of a (A, R, 1) tensor with a (B, 1, C) tensor; the batch
\* axes broadcast
Matmul(a, b) ==
  LET batch == Max2(a.shape[1], b.shape[1])
  IN MkTensor(<<batch, a.shape[2], b.shape[3]>>,
       LAMBDA idx :
         At(a, <<IF a.shape[1] = 1 THEN 0 ELSE idx[1], idx[2], 0>>)
         * At(b, <<IF b.shape[1] = 1 THEN 0 ELSE idx[1], 0, idx[3]>>))

\* ------------------------------------------------------------------------
\* Results of the pipeline stages: a status, a tensor and a subscript
\* ------------------------------------------------------------------------
Ok(t, subscript) == [status |-> "ok", tensor |-> t, subscript |-> subscript]
Err(kind) == [status |-> kind, tensor |-> NoTensor, subscript |-> <<>>]

\* the orders in which a set can be iterated
Orders(S) ==
  {o \in [1..Cardinality(S) -> S] : \A a, b \in 1..Cardinality(S) : o[a] = o[b] => a = b}

\* numpy.core.numeric.normalize_axis_tuple
AxesInRange(axes, ndim) == \A n \in 1..Len(axes) : -ndim <= axes[n] /\ axes[n] < ndim
NormAxis(a, ndim) == IF a < 0 THEN a + ndim ELSE a
NormAxes(axes, ndim) == [n \in 1..Len(axes) |-> NormAxis(axes[n], ndim)]
HasRepeat(axes) == \E a, b \in 1..Len(axes) : a # b /\ axes[a] = axes[b]
normalize_axis_tuple(axes, ndim) ==
  IF ~AxesInRange(axes, ndim) THEN [status |-> "AxisError", axes |-> <<>>]
  ELSE IF HasRepeat(NormAxes(axes, ndim)) THEN [status |-> "RepeatedAxis", axes |-> <<>>]
  ELSE [status |-> "ok", axes |-> NormAxes(axes, ndim)]

\* the axis a label position stands for: positions after the ellipsis are
\* negative offsets from the end
AxisOfPos(i, ellipsis_pos, len_excluded_at) ==
  IF ellipsis_pos = -1 \/ i < ellipsis_pos THEN i ELSE i - len_excluded_at

\* the 0-based positions of the characters of s that are in chars
PositionsIn(s, chars) ==
  SelectSeq([n \in 1..Len(s) |-> n - 1], LAMBDA i : s[i + 1] \in chars)

\* ------------------------------------------------------------------------
\* calc_single_view
\* ------------------------------------------------------------------------
\* one pass of the loop over reversed(axes_to_diag[1:])
DiagStep(st, axis, first, ellipsis_pos) ==
  IF st.status # "ok" THEN st
  ELSE IF axis >= Ndim(st.tensor) \/ first >= Ndim(st.tensor) THEN Err("IndexError")
  ELSE IF st.tensor.shape[axis + 1] # st.tensor.shape[first + 1]
    THEN Err("DiagonalSizeMismatch")
  ELSE
    LET result == Rollaxis(Diagonal(st.tensor, axis, first), -1, first)
        pos == IF ellipsis_pos # -1 /\ axis > ellipsis_pos
                 THEN axis - (Ndim(result) - Len(st.subscript) + 1)
                 ELSE axis
    IN Ok(result, DropAt(st.subscript, pos))

RECURSIVE DiagLoop(_, _, _, _)
\* for axis in reversed(axes_to_diag[1:]), from element n down to element 2
DiagLoop(st, axes_to_diag, n, ellipsis_pos) ==
  IF n < 2 THEN st
  ELSE DiagLoop(DiagStep(st, axes_to_diag[n], axes_to_diag[1], ellipsis_pos),
                axes_to_diag, n - 1, ellipsis_pos)

\* the body of the loop over labels; subscript0 is the subscript the
\* function was called with
DiagLabel(st, label, subscript0) ==
  LET subscripts_excluded_at == Remove(subscript0, "@")
      ellipsis_pos == Find(subscript0, "@")
      pos == PositionsIn(subscripts_excluded_at, {label})
      axes_to_diag == [n \in 1..Len(pos) |->
                         AxisOfPos(pos[n], ellipsis_pos, Len(subscripts_excluded_at))]
      norm == normalize_axis_tuple(axes_to_diag, Ndim(st.tensor))
  IN IF st.status # "ok" \/ Count(subscript0, label) = 1 THEN st
     ELSE IF norm.status # "ok" THEN Err(norm.status)
     ELSE DiagLoop(st, norm.axes, Len(norm.axes), ellipsis_pos)

RECURSIVE DiagLabels(_, _, _)
DiagLabels(st, order, subscript0) ==
  IF order = <<>> THEN st
  ELSE DiagLabels(DiagLabel(st, Head(order), subscript0), Tail(order), subscript0)

\* order: the order in which the set of labels is iterated
calc_single_view(ioperand, subscript, order) ==
  IF IF "@" \notin Range(subscript)
       THEN Ndim(ioperand) # Len(subscript)
       ELSE Ndim(ioperand) < Len(Remove(subscript, "@"))
    THEN Err("AssertionError")
    ELSE DiagLabels(Ok(ioperand, subscript), order, subscript)

LabelOrders(subscript) == Orders(Range(Remove(subscript, "@")))

\* ------------------------------------------------------------------------
\* calc_summed_view
\* ------------------------------------------------------------------------
NoRepeat(s) == Cardinality(Range(s)) = Len(s)

\* the same with every axis counted from the front, also after the ellipsis
calc_summed_view_from_front(ioperand, input_subscript, output_subscript) ==
  LET input_subscript_excluded_at == Remove(input_subscript, "@")
      label_to_summed == Range(input_subscript_excluded_at) \ Range(output_subscript)
      axes_to_summed == PositionsIn(input_subscript_excluded_at, label_to_summed)
      norm == normalize_axis_tuple(axes_to_summed, Ndim(ioperand))
      remaining == SelectSeq(input_subscript, LAMBDA c : c \notin label_to_summed)
  IN IF \/ ~NoRepeat(input_subscript)
        \/ ~NoRepeat(output_subscript)
        \/ ~(Range(output_subscript) \subseteq Range(input_subscript))
       THEN Err("AssertionError")
     ELSE IF axes_to_summed = <<>> THEN Ok(ioperand, remaining)
     ELSE IF norm.status # "ok" THEN Err(norm.status)
     ELSE Ok(SumAxes(ioperand, Range(norm.axes)), remaining)

calc_summed_view(ioperand, input_subscript, output_subscript) ==
  LET input_subscript_excluded_at == Remove(input_subscript, "@")
      label_to_summed == Range(input_subscript_excluded_at) \ Range(output_subscript)
      ellipsis_pos == Find(input_subscript, "@")
      pos == PositionsIn(input_subscript_excluded_at, label_to_summed)
      axes_to_summed == [n \in 1..Len(pos) |->
                           AxisOfPos(pos[n], ellipsis_pos, Len(input_subscript_excluded_at))]
      norm == normalize_axis_tuple(axes_to_summed, Ndim(ioperand))
      remaining == SelectSeq(input_subscript, LAMBDA c : c \notin label_to_summed)
  IN IF \/ ~NoRepeat(input_subscript)
        \/ ~NoRepeat(output_subscript)
        \/ ~(Range(output_subscript) \subseteq Range(input_subscript))
       THEN Err("AssertionError")
     ELSE IF axes_to_summed = <<>> THEN Ok(ioperand, remaining)
     ELSE IF norm.status # "ok" THEN Err(norm.status)
     ELSE Ok(SumAxes(ioperand, Range(norm.axes)), remaining)

\* ------------------------------------------------------------------------
\* _moveaxis
\* ------------------------------------------------------------------------
RECURSIVE InsertSorted(_, _, _)
\* for dest, src in sorted(zip(destination, source)): order.insert(dest, src)
InsertSorted(order, destination, source) ==
  IF destination = <<>> THEN order
  ELSE LET n == CHOOSE a \in 1..Len(destination) :
                  \A b \in 1..Len(destination) :
                     \/ destination[a] < destination[b]
                     \/ destination[a] = destination[b] /\ source[a] <= source[b]
           Without(q) == SubSeq(q, 1, n - 1) \o SubSeq(q, n + 1, Len(q))
       IN InsertSorted(ListInsert(order, destination[n], source[n]),
                       Without(destination), Without(source))

_moveaxis(a, source, destination) ==
  LET src == normalize_axis_tuple(source, Ndim(a))
      dst == normalize_axis_tuple(destination, Ndim(a))
      order == SelectSeq([n \in 1..Ndim(a) |-> n - 1],
                         LAMBDA x : x \notin Range(src.axes))
  IN IF src.status # "ok" THEN Err(src.status)
     ELSE IF dst.status # "ok" THEN Err(dst.status)
     ELSE IF Len(src.axes) # Len(dst.axes) THEN Err("AxisListLengthMismatch")
     ELSE Ok(Transpose(a, InsertSorted(order, dst.axes, src.axes)), <<>>)

\* ------------------------------------------------------------------------
\* calc_transposed_view
\* ------------------------------------------------------------------------
calc_transposed_view(ioperand, input_subscript, output_subscript) ==
  LET ellipsis_pos == Find(input_subscript, "@")
      moveaxis_destinations == PositionsIn(output_subscript, Range(output_subscript) \ {"@"})
      moveaxis_sources ==
        [n \in 1..Len(moveaxis_destinations) |->
           LET label_pos_input ==
                 Find(input_subscript, output_subscript[moveaxis_destinations[n] + 1])
           IN IF ellipsis_pos = -1 \/ label_pos_input < ellipsis_pos
                THEN label_pos_input
                ELSE label_pos_input - Len(input_subscript)]
      moved == _moveaxis(ioperand, moveaxis_sources, moveaxis_destinations)
  IN IF \/ ~NoRepeat(output_subscript)
        \/ Range(input_subscript) # Range(output_subscript)
       THEN Err("AssertionError")
     ELSE IF input_subscript = output_subscript THEN Ok(ioperand, output_subscript)
     ELSE IF moved.status # "ok" THEN moved
     ELSE Ok(moved.tensor, output_subscript)

\* ------------------------------------------------------------------------
\* move_broadcast_axes_to_front
\* ------------------------------------------------------------------------
\* the body of the loop, for one operand
MoveBroadcastAxes(operand, subscript) ==
  LET ellipsis_pos == Find(subscript, "@")
      ellipsis_rpos == RFind(subscript, "@") - 1
      source_axes == [n \in 1..ellipsis_pos |-> n - 1]
      destination_axes == [n \in 1..ellipsis_pos |-> (n - 1 - ellipsis_pos) - ellipsis_rpos]
      moved == _moveaxis(operand, source_axes, destination_axes)
  IN IF "@" \notin Range(subscript) THEN Ok(operand, subscript)
     ELSE IF moved.status # "ok" THEN moved
     ELSE Ok(moved.tensor, <<"@">> \o Remove(subscript, "@"))

\* views: a sequence of (tensor, subscript) pairs; the first failure ends
\* the call
move_broadcast_axes_to_front(views) ==
  LET moved == [n \in 1..Len(views) |->
                  MoveBroadcastAxes(views[n].tensor, views[n].subscript)]
  IN IF \E n \in 1..Len(views) : moved[n].status # "ok"
       THEN <<moved[CHOOSE n \in 1..Len(views) :
                      /\ moved[n].status # "ok"
                      /\ \A m \in 1..(n - 1) : moved[m].status = "ok"]>>
       ELSE moved

\* ------------------------------------------------------------------------
\* calc_combined_view
\* ------------------------------------------------------------------------
\* one pass of the loop over zip(ioperands, subscripts); acc holds result,
\* a_shape_stack, b_shape_stack and is_first_operand
CombineStep(acc, operand, subscript) ==
  LET at_front == subscript # <<>> /\ subscript[1] = "@"
      broadcasted_dims == Ndim(operand) - Len(subscript) + 1
      prefix == PyPrefix(operand.shape, broadcasted_dims)
      suffix == PySuffix(operand.shape, broadcasted_dims)
      a_shape_stack == IF at_front /\ Len(prefix) > Len(acc.a_shape_stack)
                         THEN prefix ELSE acc.a_shape_stack
      b_shape_stack == acc.b_shape_stack \o (IF at_front THEN suffix ELSE operand.shape)
      reshaped == IF at_front
                    THEN Reshape(operand, <<get_pi(prefix), 1, get_pi(suffix)>>)
                    ELSE Reshape(operand, <<1, 1, get_pi(operand.shape)>>)
      compatible == \/ acc.result.shape[1] = reshaped.shape[1]
                    \/ acc.result.shape[1] = 1
                    \/ reshaped.shape[1] = 1
      result == IF acc.is_first_operand THEN reshaped ELSE Matmul(acc.result, reshaped)
  IN IF acc.status # "ok" THEN acc
     ELSE IF ~acc.is_first_operand /\ ~compatible
       THEN [acc EXCEPT !.status = "CombineShapeMismatch"]
     ELSE [status |-> "ok",
           result |-> Reshape(result, <<result.shape[1], result.shape[2] * result.shape[3], 1>>),
           a_shape_stack |-> a_shape_stack,
           b_shape_stack |-> b_shape_stack,
           is_first_operand |-> FALSE]

RECURSIVE CombineLoop(_, _)
CombineLoop(acc, views) ==
  IF views = <<>> THEN acc
  ELSE CombineLoop(CombineStep(acc, Head(views).tensor, Head(views).subscript),
                   Tail(views))

\* views: a sequence of (tensor, subscript) pairs
calc_combined_view(views) ==
  LET acc == CombineLoop([status |-> "ok",
                          result |-> [shape |-> <<1>>, data |-> <<1>>],
                          a_shape_stack |-> <<>>,
                          b_shape_stack |-> <<>>,
                          is_first_operand |-> TRUE], views)
      joined == Join([n \in 1..Len(views) |-> views[n].subscript])
      subscript == IF "@" \in Range(joined)
                     THEN <<"@">> \o Remove(joined, "@") ELSE joined
      newshape == acc.a_shape_stack \o acc.b_shape_stack
  IN IF Len(views) = 1 THEN Ok(views[1].tensor, views[1].subscript)
     ELSE IF acc.status # "ok" THEN Err(acc.status)
     ELSE IF get_pi(newshape) # get_pi(acc.result.shape) THEN Err("ReshapeError")
     ELSE Ok(Reshape(acc.result, newshape), subscript)

\* ------------------------------------------------------------------------
\* get_dummy_labels
\* ------------------------------------------------------------------------
\* the same with the count off by one
get_dummy_labels_late(label_list) ==
  {label \in Range(label_list) : label # "@" /\ Count(label_list, label) >= 3}

get_dummy_labels(label_list) ==
  {label \in Range(label_list) : label # "@" /\ Count(label_list, label) >= 2}

\* ------------------------------------------------------------------------
\* einsum: the subscript string
\* ------------------------------------------------------------------------
RECURSIVE ReplaceEllipsis(_)
\* subscripts.replace('...', '@')
ReplaceEllipsis(s) ==
  IF s = <<>> THEN <<>>
  ELSE IF Len(s) >= 3 /\ s[1] = "." /\ s[2] = "." /\ s[3] = "."
    THEN <<"@">> \o ReplaceEllipsis(SubSeq(s, 4, Len(s)))
    ELSE <<Head(s)>> \o ReplaceEllipsis(Tail(s))

RECURSIVE Split(_, _)
\* s.split(sep), as a sequence of strings
Split(s, sep) ==
  IF sep \notin Range(s) THEN <<s>>
  ELSE <<SubSeq(s, 1, Find(s, sep))>> \o Split(SubSeq(s, Find(s, sep) + 2, Len(s)), sep)

\* re.match('^([a-zA-Z@,]+)(->[a-zA-Z@]*)?$', s): the two groups, the
\* second one empty when absent
InputChars == Letters \cup {"@", ","}
OutputChars == Letters \cup {"@"}
MatchSubscripts(s) ==
  LET arrow == Find(s, "-")
      group1 == IF arrow = -1 THEN s ELSE SubSeq(s, 1, arrow)
      group2 == IF arrow = -1 THEN <<>> ELSE SubSeq(s, arrow + 1, Len(s))
  IN IF /\ group1 # <<>>
        /\ Range(group1) \subseteq InputChars
        /\ arrow # -1 => /\ Len(group2) >= 2
                         /\ group2[2] = ">"
                         /\ Range(SubSeq(group2, 3, Len(group2))) \subseteq OutputChars
       THEN [matched |-> TRUE, group1 |-> group1, group2 |-> group2]
       ELSE [matched |-> FALSE, group1 |-> <<>>, group2 |-> <<>>]

\* re.match('/^[a-zA-Z]*@[a-zA-Z]*?$/', s): the pattern wants a '/' and
\* then the start of the string
AtStartOfString(pos) == pos = 0
MatchSlashPattern(s) ==
  /\ s # <<>>
  /\ s[1] = "/"
  /\ AtStartOfString(1)

\* lines 243-295: the input subscripts and the output subscript
ParseSubscripts(raw) ==
  LET stripped == Remove(raw, " ")
      subscripts == ReplaceEllipsis(stripped)
      match == MatchSubscripts(subscripts)
      input_subscripts == match.group1
      explicit == PySuffix(match.group2, 2)
      label_list == Remove(input_subscripts, ",")
      implicit == SortedChars(Range(label_list) \ get_dummy_labels(label_list))
      Parsed(kind, out) ==
        [status |-> kind, input_subscripts |-> input_subscripts, output_subscript |-> out]
  IN IF Range(stripped) \ (Letters \cup {"-", ">", ",", "."}) # {}
       THEN Parsed("InvalidLabel", <<>>)
     ELSE IF "." \in Range(subscripts) THEN Parsed("MalformedEllipsis", <<>>)
     ELSE IF ~match.matched THEN Parsed("GrammarMismatch", <<>>)
     ELSE IF match.group2 = <<>> THEN Parsed("ok", implicit)
     ELSE IF Range(explicit) \ Range(input_subscripts) # {}
       THEN Parsed("UnknownOutputLabel", <<>>)
     ELSE IF ~NoRepeat(explicit) THEN Parsed("DuplicateOutputLabel", <<>>)
     ELSE IF "@" \in Range(explicit) /\ MatchSlashPattern(explicit)
       THEN Parsed("MultipleOutputEllipsis", <<>>)
     ELSE IF "@" \in Range(input_subscripts) /\ "@" \notin Range(explicit)
       THEN Parsed("MissingOutputEllipsis", <<>>)
     ELSE Parsed("ok", explicit)

\* lines 297-303: the message of the count check, "" when it passes
CountCheck(input_subscripts_list, converted_inputs) ==
  IF Len(input_subscripts_list) < Len(converted_inputs)
    THEN "fewer operands provided"
  ELSE IF Len(input_subscripts_list) > Len(converted_inputs)
    THEN "more operands provided"
  ELSE ""

\* lines 309-319: the checks of one operand against its subscript
OperandCheck(ioperand, subscript) ==
  IF Len(Remove(subscript, "@")) > Ndim(ioperand) THEN "TooManySubscripts"
  ELSE IF "@" \notin Range(subscript) /\ Len(subscript) < Ndim(ioperand)
    THEN "MissingEllipsisForExtraDims"
  ELSE IF "@" \in Range(subscript) /\ MatchSlashPattern(subscript)
    THEN "MultipleEllipsisOneOperand"
  ELSE "ok"

\* ------------------------------------------------------------------------
\* The calls the model makes
\* ------------------------------------------------------------------------
\* the size of the axes a character of a subscript is bound to
Dim(c) == IF c = "j" THEN 3 ELSE 2

\* the operand numpy.arange(size).reshape(shape), scaled and shifted by seed
Fill(shape, seed) ==
  [shape |-> shape,
   data |-> [n \in 1..get_pi(shape) |-> (n - 1) * (seed + 1) + seed]]

Seeds == 0..MaxSeed

RECURSIVE ShapeFor(_, _)
\* the shape a subscript asks for when its ellipsis covers e axes
ShapeFor(subscript, e) ==
  IF subscript = <<>> THEN <<>>
  ELSE (IF Head(subscript) = "@" THEN [n \in 1..e |-> Dim("@")]
                                 ELSE <<Dim(Head(subscript))>>)
       \o ShapeFor(Tail(subscript), e)

RECURSIVE Spell(_)
\* a subscript as the caller writes it: '...' for the ellipsis
Spell(subscript) ==
  IF subscript = <<>> THEN <<>>
  ELSE (IF Head(subscript) = "@" THEN <<".", ".", ".">> ELSE <<Head(subscript)>>)
       \o Spell(Tail(subscript))

RECURSIVE JoinWith(_, _)
\* sep.join(list of strings)
JoinWith(ss, sep) ==
  IF Len(ss) <= 1 THEN Join(ss)
  ELSE Head(ss) \o <<sep>> \o JoinWith(Tail(ss), sep)

Implicit(ins) == JoinWith([n \in 1..Len(ins) |-> Spell(ins[n])], ",")
Explicit(ins, out) == Implicit(ins) \o <<"-", ">">> \o Spell(out)

Call(raw, tensors) == [subscripts |-> raw, operands |-> tensors]

\* strings of 1..n characters
Strings(chars, n) == UNION {[1..k -> chars] : k \in 1..n}

\* strings with at most one ellipsis
OneEllipsis(sub) == Count(sub, "@") <= 1

\* the number of axes the ellipsis of a subscript may cover
EllipsisRanks(sub) == IF "@" \in Range(sub) THEN 0..MaxEllipsis ELSE {0}

\* einsum('ijij->ij', x) for x of shape (2, 2, 2, 2)
DiagonalCalls ==
  {Call(Explicit(<<(<<"i", "j", "i", "j">>)>>, <<"i", "j">>), <<Fill(<<2, 2, 2, 2>>, seed)>>) :
     seed \in Seeds}

\* batch shapes and numpy's broadcasting rule on them
BatchShapes == UNION {[1..r -> {1, 2}] : r \in 0..MaxBatchRank}
BatchAxis(B, k) == IF k < Len(B) THEN B[Len(B) - k] ELSE 1
Broadcastable(Ba, Bb) ==
  \A k \in 0..(Max2(Len(Ba), Len(Bb)) - 1) :
     BatchAxis(Ba, k) = BatchAxis(Bb, k) \/ BatchAxis(Ba, k) = 1 \/ BatchAxis(Bb, k) = 1
BroadcastShape(Ba, Bb) ==
  [n \in 1..Max2(Len(Ba), Len(Bb)) |->
     Max2(BatchAxis(Ba, Max2(Len(Ba), Len(Bb)) - n),
          BatchAxis(Bb, Max2(Len(Ba), Len(Bb)) - n))]

\* einsum('...ij,...jk->...ik', a, b)
BatchedMatmulCalls ==
  {Call(Explicit(<<(<<"@", "i", "j">>), (<<"@", "j", "k">>)>>, <<"@", "i", "k">>),
        <<Fill(Ba \o <<Dim("i"), Dim("j")>>, 0), Fill(Bb \o <<Dim("j"), Dim("k")>>, 1)>>) :
     <<Ba, Bb>> \in {p \in BatchShapes \X BatchShapes : Broadcastable(p[1], p[2])}}

\* one operand, no output subscript
SingleSubscripts == {sub \in Strings({"A", "i", "j", "@"}, MaxSingleLen) : OneEllipsis(sub)}
SingleCalls ==
  UNION {{Call(Implicit(<<sub>>), <<Fill(ShapeFor(sub, e), 0)>>) : e \in EllipsisRanks(sub)} :
           sub \in SingleSubscripts}

\* two operands, no output subscript
PairSubscripts == {sub \in Strings({"i", "j", "@"}, MaxPairLen) : OneEllipsis(sub)}
PairCalls ==
  UNION {{Call(Implicit(<<p[1], p[2]>>),
               <<Fill(ShapeFor(p[1], e1), 0), Fill(ShapeFor(p[2], e2), 1)>>) :
             <<e1, e2>> \in EllipsisRanks(p[1]) \X EllipsisRanks(p[2])} :
           p \in PairSubscripts \X PairSubscripts}

\* three operands, no output subscript
TripleCalls ==
  UNION {{Call(Implicit(<<p[1], p[2], p[3]>>),
               <<Fill(ShapeFor(p[1], e), 0), Fill(ShapeFor(p[2], e), 1),
                 Fill(ShapeFor(p[3], e), 2)>>) :
             e \in 0..MaxEllipsis} :
           p \in Strings({"i", "j", "@"}, 1) \X Strings({"i", "j", "@"}, 1)
                   \X Strings({"i", "j", "@"}, 1)}

\* one or two operands with an output subscript
ExplicitCalls ==
  {Call(Explicit(<<(<<"i", "j">>)>>, out), <<Fill(<<Dim("i"), Dim("j")>>, seed)>>) :
     <<out, seed>> \in {<<>>, <<"i">>, <<"j">>, <<"i", "j">>, <<"j", "i">>} \X Seeds}
  \cup
  {Call(Explicit(<<(<<"i", "j">>), (<<"j", "k">>)>>, out),
        <<Fill(<<Dim("i"), Dim("j")>>, seed), Fill(<<Dim("j"), Dim("k")>>, seed + 1)>>) :
     <<out, seed>> \in {<<"i", "k">>, <<"k", "i">>, <<"i", "k", "k">>} \X Seeds}
  \cup
  {Call(Implicit(<<(<<"i", "j">>), (<<"j", "k">>)>>),
        <<Fill(<<Dim("i"), Dim("j")>>, seed), Fill(<<Dim("j"), Dim("k")>>, seed + 1)>>) :
     seed \in Seeds}
  \cup
  {Call(<<"i", "j", "-", ">", "j", "i", ",", "i", "j">>,
        <<Fill(<<2, 3>>, 0), Fill(<<2, 3>>, 1)>>),
    Call(<<"i", "i">>, <<Fill(<<2, 3>>, 0)>>)}

\* more or fewer tensors than operand subscripts
SomeTensors == <<Fill(<<2, 3>>, 0), Fill(<<3, 2>>, 1), Fill(<<2, 2>>, 2)>>
CountCalls ==
  {Call(raw, SubSeq(SomeTensors, 1, n)) :
     <<raw, n>> \in {Implicit(<<(<<"i", "j">>)>>),
                     Implicit(<<(<<"i", "j">>), (<<"j", "k">>)>>),
                     Explicit(<<(<<"i", "j">>), (<<"j", "k">>)>>, <<"i", "k">>)}
                    \X (1..3)}

\* an operand subscript with two ellipses
TwoEllipses == {<<"@", "@", "i">>, <<"@", "i", "@">>, <<"i", "@", "@">>}
MultipleEllipsisCalls ==
  {Call(Implicit(<<sub>>), <<Fill([n \in 1..r |-> 2], 0)>>) :
     <<sub, r>> \in TwoEllipses \X (1..(1 + MaxEllipsis))}
  \cup
  {Call(Explicit(<<sub, (<<"j">>)>>, <<"@", "i", "j">>),
        <<Fill([n \in 1..r |-> 2], 0), Fill(<<3>>, 1)>>) :
     <<sub, r>> \in TwoEllipses \X (1..(1 + MaxEllipsis))}

Calls ==
  DiagonalCalls \cup BatchedMatmulCalls \cup SingleCalls \cup PairCalls \cup TripleCalls
    \cup ExplicitCalls \cup CountCalls \cup MultipleEllipsisCalls

\* ------------------------------------------------------------------------
\* Calls of the stages on their own
\* ------------------------------------------------------------------------
\* an argument list: a tensor, its subscript and an output subscript
Args(t, sub, out) == [tensor |-> t, subscript |-> sub, output |-> out]

\* all shapes of a given rank with axes of size 1 or 2
Shapes(rank) == [1..rank -> {1, 2}]

\* subscripts with pairwise distinct characters, at most one of them '@'
DistinctSubscripts ==
  {<<>>} \cup {sub \in Strings({"i", "j", "k", "@"}, MaxViewLen) : NoRepeat(sub)}

\* the orderings of the subsets of the characters of a subscript
Arrangements(sub) ==
  {<<>>} \cup {out \in Strings(Range(sub), Len(sub)) : NoRepeat(out)}

\* calc_single_view: any subscript with at most one ellipsis, any shape of
\* a rank the subscript allows
DiagSubscripts == {sub \in Strings({"i", "j", "@"}, MaxDiagLen) : OneEllipsis(sub)}
SingleViewArgs ==
  UNION {UNION {{Args(Fill(shape, 0), sub, <<>>) :
                   shape \in Shapes(Len(Remove(sub, "@")) + e)} :
                e \in EllipsisRanks(sub)} :
         sub \in DiagSubscripts}

\* calc_summed_view: distinct labels, an output subscript over a subset
SummedViewArgs ==
  UNION {UNION {{Args(Fill(ShapeFor(sub, e), 0), sub, out) : out \in Arrangements(sub)} :
                e \in EllipsisRanks(sub)} :
         sub \in DistinctSubscripts}

\* calc_transposed_view: distinct labels, an output subscript with the
\* same characters
TransposedViewArgs ==
  UNION {UNION {{Args(Fill(ShapeFor(sub, e), 0), sub, out) :
                   out \in {o \in Arrangements(sub) : Len(o) = Len(sub)}} :
                e \in EllipsisRanks(sub)} :
         sub \in DistinctSubscripts}

\* move_broadcast_axes_to_front: one operand with distinct labels
MoveBroadcastArgs ==
  UNION {{Args(Fill(ShapeFor(sub, e), 0), sub, <<>>) : e \in EllipsisRanks(sub)} :
         sub \in DistinctSubscripts}

\* ------------------------------------------------------------------------
\* einsum as a state machine: one action per stage of the pipeline
\* ------------------------------------------------------------------------
VARIABLES
  pc,                     \* the stage the call has reached
  subscripts,             \* the subscripts string of the call
  operands,               \* the operand tensors of the call
  input_subscripts_list,  \* one subscript per operand
  output_subscript,       \* the explicit or inferred output subscript
  single_views,           \* (tensor, subscript) per operand after the diagonal
  results,                \* the same pairs after move_broadcast_axes_to_front
  cur                     \* the current (tensor, subscript) or the error

vars == <<pc, subscripts, operands, input_subscripts_list, output_subscript,
          single_views, results, cur>>

None == Err("none")
View(r) == [tensor |-> r.tensor, subscript |-> r.subscript]

\* a call of einsum
InitEinsum ==
  /\ pc = "start"
  /\ \E call \in Calls : subscripts = call.subscripts /\ operands = call.operands
  /\ input_subscripts_list = <<>>
  /\ output_subscript = <<>>
  /\ single_views = <<>>
  /\ results = <<>>
  /\ cur = None

\* a call of one stage, with the arguments in operands[0],
\* input_subscripts_list[0] and output_subscript
InitStage(name, args) ==
  /\ pc = name
  /\ subscripts = <<>>
  /\ \E a \in args :
       /\ operands = <<a.tensor>>
       /\ input_subscripts_list = <<a.subscript>>
       /\ output_subscript = a.output
  /\ single_views = <<>>
  /\ results = <<>>
  /\ cur = None

Init ==
  \/ InitEinsum
  \/ InitStage("calc_single_view", SingleViewArgs)
  \/ InitStage("calc_summed_view", SummedViewArgs)
  \/ InitStage("calc_transposed_view", TransposedViewArgs)
  \/ InitStage("move_broadcast_axes_to_front", MoveBroadcastArgs)

Fail(kind) == pc' = "error" /\ cur' = Err(kind)

\* lines 237-303
Parse ==
  LET parsed == ParseSubscripts(subscripts)
      list == Split(parsed.input_subscripts, ",")
      count == CountCheck(list, operands)
      status == IF parsed.status = "InvalidLabel" THEN parsed.status
                ELSE IF operands = <<>> THEN "ResultTypeError"
                ELSE IF parsed.status # "ok" THEN parsed.status
                ELSE IF count # "" THEN count
                ELSE "ok"
  IN /\ pc = "start"
     /\ IF status = "ok"
          THEN /\ pc' = "single_views"
               /\ input_subscripts_list' = list
               /\ output_subscript' = parsed.output_subscript
               /\ cur' = cur
          ELSE /\ Fail(status)
               /\ UNCHANGED <<input_subscripts_list, output_subscript>>
     /\ UNCHANGED <<subscripts, operands, single_views, results>>

\* lines 306-322, one pass of the loop
SingleView ==
  /\ pc = "single_views"
  /\ Len(single_views) < Len(input_subscripts_list)
  /\ LET i == Len(single_views) + 1
         check == OperandCheck(operands[i], input_subscripts_list[i])
     IN IF check # "ok"
          THEN Fail(check) /\ UNCHANGED single_views
          ELSE \E order \in LabelOrders(input_subscripts_list[i]) :
                 LET r == calc_single_view(operands[i], input_subscripts_list[i], order)
                 IN IF r.status # "ok"
                      THEN Fail(r.status) /\ UNCHANGED single_views
                      ELSE /\ single_views' = Append(single_views, View(r))
                           /\ UNCHANGED <<pc, cur>>
  /\ UNCHANGED <<subscripts, operands, input_subscripts_list, output_subscript, results>>

\* lines 325-327
MoveBroadcast ==
  /\ pc = "single_views"
  /\ Len(single_views) = Len(input_subscripts_list)
  /\ Len(operands) >= 2
  /\ LET moved == move_broadcast_axes_to_front(single_views)
     IN IF moved[1].status # "ok"
          THEN Fail(moved[1].status) /\ UNCHANGED results
          ELSE /\ results' = [n \in 1..Len(moved) |-> View(moved[n])]
               /\ pc' = "broadcast"
               /\ UNCHANGED cur
  /\ UNCHANGED <<subscripts, operands, input_subscripts_list, output_subscript, single_views>>

\* line 328
Combine ==
  /\ pc = "broadcast"
  /\ LET r == calc_combined_view(results)
     IN IF r.status # "ok" THEN Fail(r.status)
        ELSE pc' = "combined" /\ cur' = r
  /\ UNCHANGED <<subscripts, operands, input_subscripts_list, output_subscript,
                 single_views, results>>

\* line 329
PostDiagonal ==
  /\ pc = "combined"
  /\ \E order \in LabelOrders(cur.subscript) :
       LET r == calc_single_view(cur.tensor, cur.subscript, order)
       IN IF r.status # "ok" THEN Fail(r.status)
          ELSE pc' = "diagonal" /\ cur' = r
  /\ UNCHANGED <<subscripts, operands, input_subscripts_list, output_subscript,
                 single_views, results>>

\* line 331
TakeSingleView ==
  /\ pc = "single_views"
  /\ Len(single_views) = Len(input_subscripts_list)
  /\ Len(operands) < 2
  /\ pc' = "diagonal"
  /\ cur' = Ok(single_views[1].tensor, single_views[1].subscript)
  /\ UNCHANGED <<subscripts, operands, input_subscripts_list, output_subscript,
                 single_views, results>>

\* line 333
Summed ==
  /\ pc = "diagonal"
  /\ LET r == calc_summed_view(cur.tensor, cur.subscript, output_subscript)
     IN IF r.status # "ok" THEN Fail(r.status)
        ELSE pc' = "summed" /\ cur' = r
  /\ UNCHANGED <<subscripts, operands, input_subscripts_list, output_subscript,
                 single_views, results>>

\* line 334
Transposed ==
  /\ pc = "summed"
  /\ LET r == calc_transposed_view(cur.tensor, cur.subscript, output_subscript)
     IN IF r.status # "ok" THEN Fail(r.status)
        ELSE pc' = "done" /\ cur' = r
  /\ UNCHANGED <<subscripts, operands, input_subscripts_list, output_subscript,
                 single_views, results>>

\* the stages called on their own
Return(name, r) ==
  /\ pc' = name
  /\ cur' = r
  /\ UNCHANGED <<subscripts, operands, input_subscripts_list, output_subscript,
                 single_views, results>>

CallSingleView ==
  /\ pc = "calc_single_view"
  /\ \E order \in LabelOrders(input_subscripts_list[1]) :
       Return("single_view_returned",
              calc_single_view(operands[1], input_subscripts_list[1], order))

CallSummedView ==
  /\ pc = "calc_summed_view"
  /\ Return("summed_view_returned",
            calc_summed_view(operands[1], input_subscripts_list[1], output_subscript))

CallTransposedView ==
  /\ pc = "calc_transposed_view"
  /\ Return("transposed_view_returned",
            calc_transposed_view(operands[1], input_subscripts_list[1], output_subscript))

CallMoveBroadcast ==
  /\ pc = "move_broadcast_axes_to_front"
  /\ Return("move_broadcast_returned",
            move_broadcast_axes_to_front(
              <<[tensor |-> operands[1], subscript |-> input_subscripts_list[1]]>>)[1])

Next ==
  \/ CallSingleView
  \/ CallSummedView
  \/ CallTransposedView
  \/ CallMoveBroadcast
  \/ Parse
  \/ SingleView
  \/ MoveBroadcast
  \/ Combine
  \/ PostDiagonal
  \/ TakeSingleView
  \/ Summed
  \/ Transposed

Spec == Init /\ [][Next]_vars

\* ------------------------------------------------------------------------
\* What the subscripts mean: the axes a character of a subscript stands for
\* ------------------------------------------------------------------------
Labels(sub) == Remove(sub, "@")

\* the number of axes the ellipsis of sub covers in a tensor of rank ndim
Covered(sub, ndim) == ndim - Len(Labels(sub))

\* the axes of the character at position n (from 1) of sub
AxesAt(sub, ndim, n) ==
  LET after == \E m \in 1..(n - 1) : sub[m] = "@"
      first == IF after THEN n - 2 + Covered(sub, ndim) ELSE n - 1
  IN IF sub[n] = "@" THEN [a \in 1..Covered(sub, ndim) |-> first + a - 1]
                     ELSE <<first>>

\* the axes of a tensor of subscript sub in the order another subscript
\* with the same characters lists them
AxesInOrder(sub, ndim, out) ==
  Join([n \in 1..Len(out) |-> AxesAt(sub, ndim, Find(sub, out[n]) + 1)])

\* sub without the later occurrences of its repeated labels
FirstOccurrences(sub) ==
  LET keep == {n \in 1..Len(sub) : \A m \in 1..(n - 1) : sub[m] # sub[n]}
  IN [a \in 1..Cardinality(keep) |->
        sub[CHOOSE n \in keep : Cardinality({m \in keep : m < n}) = a - 1]]

\* the matrix product of a (n, m) and a (m, k) tensor
MatrixProduct(a, b) ==
  MkTensor(<<a.shape[1], b.shape[2]>>,
    LAMBDA idx : SumSeq([j \in 1..a.shape[2] |->
                           At(a, <<idx[1], j - 1>>) * At(b, <<j - 1, idx[2]>>)]))

\* the batched matrix product of a of shape Ba + (n, m) and b of shape
\* Bb + (m, k), the batch axes broadcast
BatchedMatrixProduct(a, b) ==
  LET Ba == SubSeq(a.shape, 1, Ndim(a) - 2)
      Bb == SubSeq(b.shape, 1, Ndim(b) - 2)
      B == BroadcastShape(Ba, Bb)
      Batch(idx, Bx) == [m \in 1..Len(Bx) |->
                           IF Bx[m] = 1 THEN 0 ELSE idx[m + Len(B) - Len(Bx)]]
  IN MkTensor(B \o <<a.shape[Ndim(a) - 1], b.shape[Ndim(b)]>>,
       LAMBDA idx :
         SumSeq([j \in 1..a.shape[Ndim(a)] |->
                   At(a, Batch(idx, Ba) \o <<idx[Len(B) + 1], j - 1>>)
                   * At(b, Batch(idx, Bb) \o <<j - 1, idx[Len(B) + 2]>>)]))

\* the operand subscripts of the call as the caller wrote them
WrittenInputs ==
  LET arrow == Find(subscripts, "-")
  IN Split(IF arrow = -1 THEN subscripts ELSE SubSeq(subscripts, 1, arrow), ",")

IsCall(raw) == pc \notin {"calc_single_view", "single_view_returned",
                          "calc_summed_view", "summed_view_returned",
                          "calc_transposed_view", "transposed_view_returned",
                          "move_broadcast_axes_to_front", "move_broadcast_returned"}
               /\ subscripts = raw

\* ------------------------------------------------------------------------
\* C1
\* ------------------------------------------------------------------------
IsDiagonalCall ==
  /\ IsCall(Explicit(<<(<<"i", "j", "i", "j">>)>>, <<"i", "j">>))
  /\ Len(operands) = 1
  /\ operands[1].shape = <<2, 2, 2, 2>>

\* C1: einsum('ijij->ij', x) for x of shape (2, 2, 2, 2) never fails, in
\* whatever order calc_single_view visits i and j, and returns r of shape
\* (2, 2) with r[p, q] = x[p, q, p, q].
C1_DiagonalInEveryOrder ==
  IsDiagonalCall =>
    /\ pc # "error"
    /\ pc = "done" =>
         /\ cur.tensor.shape = <<2, 2>>
         /\ \A p, q \in 0..1 : At(cur.tensor, <<p, q>>) = At(operands[1], <<p, q, p, q>>)

\* ------------------------------------------------------------------------
\* C2
\* ------------------------------------------------------------------------
IsBatchedMatmulCall ==
  /\ IsCall(Explicit(<<(<<"@", "i", "j">>), (<<"@", "j", "k">>)>>, <<"@", "i", "k">>))
  /\ Len(operands) = 2
  /\ Ndim(operands[1]) >= 2
  /\ Ndim(operands[2]) >= 2

BatchOf(t) == SubSeq(t.shape, 1, Ndim(t) - 2)

\* C2: einsum('...ij,...jk->...ik', a, b) with broadcast-compatible but
\* different batch shapes never fails and returns the batched matrix
\* product, of shape broadcast(Ba, Bb) + (n, k).
C2_BroadcastBatchedMatmul ==
  (/\ IsBatchedMatmulCall
   /\ BatchOf(operands[1]) # BatchOf(operands[2])
   /\ Broadcastable(BatchOf(operands[1]), BatchOf(operands[2])))
  => /\ pc # "error"
     /\ pc = "done" => cur.tensor = BatchedMatrixProduct(operands[1], operands[2])

\* ------------------------------------------------------------------------
\* C3
\* ------------------------------------------------------------------------
IsImplicitCall == IsCall(subscripts) /\ "-" \notin Range(subscripts)

IsMatmulCall ==
  /\ \/ IsCall(Implicit(<<(<<"i", "j">>), (<<"j", "k">>)>>))
     \/ IsCall(Explicit(<<(<<"i", "j">>), (<<"j", "k">>)>>, <<"i", "k">>))
  /\ Len(operands) = 2

\* C3: without '->' the inferred output subscript holds exactly the labels
\* written exactly once in the input subscripts, in sorted order, and the
\* ellipsis marker once if and only if an input subscript has an ellipsis;
\* so einsum('ij,jk', a, b) and einsum('ij,jk->ik', a, b) both return the
\* matrix product.
C3_ImplicitOutput ==
  /\ (IsImplicitCall /\ input_subscripts_list # <<>>) =>
       /\ \A c \in Letters :
            Count(output_subscript, c) = IF Count(subscripts, c) = 1 THEN 1 ELSE 0
       /\ Count(output_subscript, "@") = IF "." \in Range(subscripts) THEN 1 ELSE 0
       /\ Len(output_subscript) =
            Cardinality({c \in Letters : Count(subscripts, c) = 1})
            + (IF "." \in Range(subscripts) THEN 1 ELSE 0)
       /\ \A a, b \in 1..Len(Labels(output_subscript)) :
            a < b => Ord(Labels(output_subscript)[a]) < Ord(Labels(output_subscript)[b])
  /\ IsMatmulCall =>
       /\ pc # "error"
       /\ input_subscripts_list # <<>> => output_subscript = <<"i", "k">>
       /\ pc = "done" => cur.tensor = MatrixProduct(operands[1], operands[2])

C3_Witness ==
  /\ IsCall(Implicit(<<(<<"i", "j">>), (<<"j", "k">>)>>))
  /\ pc = "done"
  /\ output_subscript = <<"i", "k">>
  /\ cur.tensor.shape = <<Dim("i"), Dim("k")>>

\* ------------------------------------------------------------------------
\* C4
\* ------------------------------------------------------------------------
\* the labels of the input subscript that the output subscript lacks
Absent(sub, out) == Range(Labels(sub)) \ Range(out)

\* C4: calc_summed_view sums exactly the axes of the labels absent from
\* the output subscript, never an axis under the ellipsis, removes exactly
\* those labels from the subscript, and changes nothing when no label is
\* absent; einsum('ij->i', x) is the row-wise sum of x.
C4_SummedView ==
  /\ pc = "summed_view_returned" =>
       LET t == operands[1]
           sub == input_subscripts_list[1]
           absent == Absent(sub, output_subscript)
           axes == {AxesAt(sub, Ndim(t), Find(sub, c) + 1)[1] : c \in absent}
       IN /\ cur.status = "ok"
          /\ cur.subscript = SelectSeq(sub, LAMBDA c : c \notin absent)
          /\ cur.tensor = SumAxes(t, axes)
          /\ absent = {} => cur.tensor = t /\ cur.subscript = sub
  /\ (IsCall(Explicit(<<(<<"i", "j">>)>>, <<"i">>)) /\ Len(operands) = 1) =>
       /\ pc # "error"
       /\ pc = "done" =>
            /\ cur.tensor.shape = <<operands[1].shape[1]>>
            /\ \A p \in 0..(operands[1].shape[1] - 1) :
                 At(cur.tensor, <<p>>) =
                   SumSeq([q \in 1..operands[1].shape[2] |-> At(operands[1], <<p, q - 1>>)])

C4_Witness ==
  /\ pc = "summed_view_returned"
  /\ input_subscripts_list[1] = <<"i", "@", "j">>
  /\ output_subscript = <<"@">>
  /\ Ndim(operands[1]) = 4
  /\ cur.tensor.shape = <<Dim("@"), Dim("@")>>

\* ------------------------------------------------------------------------
\* C5
\* ------------------------------------------------------------------------
\* the labels of a (tensor, subscript) pair fit the rank of its tensor
RankFits(view) ==
  /\ Len(Labels(view.subscript)) <= Ndim(view.tensor)
  /\ "@" \notin Range(view.subscript) => Len(Labels(view.subscript)) = Ndim(view.tensor)

\* the number of axes the ellipsis covers, over the operands of the call
BroadcastAxes ==
  LET n == Min2(Len(operands), Len(input_subscripts_list))
      Cov(m) == IF "@" \in Range(input_subscripts_list[m])
                  THEN Covered(input_subscripts_list[m], Ndim(operands[m])) ELSE 0
  IN IF n = 0 THEN 0 ELSE CHOOSE c \in {Cov(m) : m \in 1..n} : \A m \in 1..n : Cov(m) <= c

\* C5: after every stage of einsum the labels of the current subscript are
\* at most as many as the axes of the current tensor, and exactly as many
\* when there is no ellipsis; a returned tensor has one axis per output
\* label and one per broadcast axis.
C5_RankAtEveryStage ==
  IsCall(subscripts) =>
    /\ \A n \in 1..Len(single_views) : RankFits(single_views[n])
    /\ \A n \in 1..Len(results) : RankFits(results[n])
    /\ pc \in {"combined", "diagonal", "summed", "done"} => RankFits(cur)
    /\ pc = "done" =>
         Ndim(cur.tensor) = Len(Labels(output_subscript)) + BroadcastAxes

\* ------------------------------------------------------------------------
\* C6
\* ------------------------------------------------------------------------
\* C6: with fewer tensors than operand subscripts einsum fails, before any
\* stage runs, with the message that too few operands were provided, and
\* with more tensors than operand subscripts with the message that too
\* many were provided.
C6_CountMismatchMessage ==
  (IsCall(subscripts) /\ pc # "start" /\ Len(WrittenInputs) # Len(operands)) =>
    /\ pc = "error"
    /\ single_views = <<>>
    /\ Len(operands) < Len(WrittenInputs) => cur.status = "fewer operands provided"
    /\ Len(operands) > Len(WrittenInputs) => cur.status = "more operands provided"

\* ------------------------------------------------------------------------
\* C7
\* ------------------------------------------------------------------------
\* an operand subscript of the call is written with two or more ellipses
WritesTwoEllipses ==
  \E n \in 1..Len(WrittenInputs) : Count(WrittenInputs[n], ".") >= 6

\* C7: a call with two or more ellipses in one operand subscript fails with
\* MultipleEllipsisOneOperand; no such subscript reaches calc_single_view
\* and no tensor is returned.
C7_MultipleEllipsisRejected ==
  (IsCall(subscripts) /\ WritesTwoEllipses /\ Len(WrittenInputs) = Len(operands)) =>
    /\ single_views = <<>>
    /\ pc # "done"
    /\ pc \notin {"start", "single_views"} =>
         pc = "error" /\ cur.status = "MultipleEllipsisOneOperand"

\* ------------------------------------------------------------------------
\* C8
\* ------------------------------------------------------------------------
\* two axes of t bound to the same label of sub differ in size
SizesDiffer(t, sub) ==
  \E a, b \in 1..Len(sub) :
     /\ sub[a] # "@"
     /\ sub[a] = sub[b]
     /\ t.shape[AxesAt(sub, Ndim(t), a)[1] + 1] # t.shape[AxesAt(sub, Ndim(t), b)[1] + 1]

\* C8: calc_single_view fails only with DiagonalSizeMismatch and only when
\* two axes of one label differ in size; otherwise the returned subscript
\* is the given one without the later occurrences of its repeated labels.
C8_SingleViewSubscript ==
  pc = "single_view_returned" =>
    \/ cur.status = "DiagonalSizeMismatch" /\ SizesDiffer(operands[1], input_subscripts_list[1])
    \/ cur.status = "ok" /\ cur.subscript = FirstOccurrences(input_subscripts_list[1])

\* ------------------------------------------------------------------------
\* C9
\* ------------------------------------------------------------------------
\* C9: move_broadcast_axes_to_front puts the axes under the ellipsis first,
\* in their order, then the labelled axes in the order of the subscript,
\* and returns '@' followed by the labels; without an ellipsis it returns
\* what it was given.
C9_BroadcastAxesFirst ==
  pc = "move_broadcast_returned" =>
    LET t == operands[1]
        sub == input_subscripts_list[1]
        front == <<"@">> \o Labels(sub)
    IN IF "@" \in Range(sub)
         THEN /\ cur.status = "ok"
              /\ cur.subscript = front
              /\ cur.tensor = Transpose(t, AxesInOrder(sub, Ndim(t), front))
         ELSE cur = Ok(t, sub)

\* ------------------------------------------------------------------------
\* C10
\* ------------------------------------------------------------------------
\* C10: calc_transposed_view never fails and returns the tensor with its
\* axes in the order of the output subscript, the axes under the ellipsis
\* as one block in their order; it returns the operand itself when the two
\* subscripts are equal.
C10_TransposedView ==
  pc = "transposed_view_returned" =>
    LET t == operands[1]
        sub == input_subscripts_list[1]
    IN /\ cur.status = "ok"
       /\ cur.tensor = Transpose(t, AxesInOrder(sub, Ndim(t), output_subscript))
       /\ sub = output_subscript => cur.tensor = t

====
